---- MODULE Spec2Model ----
(***************************************************************************)
(* Saudi Speak (src/app.py): a Streamlit page.  Every widget event re-runs *)
(* the whole script top to bottom: the sidebar reads the widget values,    *)
(* the Analyze button handler runs when the button was pressed, and the    *)
(* Results Area renders whatever result the session caches.                *)
(*                                                                         *)
(* Strings that the code measures or slices (user_text, the prosody rate   *)
(* attribute) are sequences of one-character strings; the other strings    *)
(* (keys, region, Arabic text of a payload) are only tested for emptiness  *)
(* and are TLA+ strings.  The timestamp column of the log is the wall      *)
(* clock and is not modelled; user_name, voice and learning_mode select    *)
(* no branch of the code and stay at their defaults.                       *)
(***************************************************************************)
EXTENDS Integers, Sequences, FiniteSets

VARIABLES
    ai_api_key,        \* st.text_input "OpenRouter Key"
    azure_speech_key,  \* st.text_input "Azure Speech Key"
    azure_region,      \* st.text_input "Azure Region"
    speech_rate,       \* st.slider "Speaking Rate"
    user_text,         \* st.text_area
    session_result,    \* st.session_state['result'], NoResult when absent
    log_file,          \* user_activity_log.csv
    event,             \* what triggered the latest script run
    calls,             \* analyze_text / generate_audio_azure calls of the latest run, in order
    shown,             \* elements the latest run put on the page, in order
    run_error          \* uncaught exception that stopped the latest run, "none" otherwise

vars == <<ai_api_key, azure_speech_key, azure_region, speech_rate, user_text,
          session_result, log_file, event, calls, shown, run_error>>

----------------------------------------------------------------------------
(* Bounds of the model *)

MaxTextLen == 51
MaxSentences == 2
MaxLog == 2

(* Program constants *)

PreviewLen == 50
RateMin == -50
RateMax == 50
RateDefault == -10

----------------------------------------------------------------------------
(* Input domains *)

Alphabet == <<"a", "b", "c", "d", "e", "f", "g">>

TextOfLen(n) == [i \in 1..n |-> Alphabet[((i - 1) % 7) + 1]]

TextLens == {0, PreviewLen, MaxTextLen}

Texts == {TextOfLen(n) : n \in TextLens}

KeyValues == {"", "key"}

RegionValues == {"", "eastus"}

SliderRange == RateMin..RateMax

RateSamples == {RateDefault, RateMax}

----------------------------------------------------------------------------
(* JSON values.  An object is [t |-> "obj", m |-> record of its members]; *)
(* a number is [t |-> "int"].                                              *)

Obj(m) == [t |-> "obj", m |-> m]

JsonInt == [t |-> "int"]

NoResult == [t |-> "absent"]

Has(data, k) == data.t = "obj" /\ k \in DOMAIN data.m

SentenceAt(i) == IF i % 2 = 0 THEN [segment |-> "seg", translation |-> "tr"]
                 ELSE [translation |-> "tr"]

DocFull == Obj([final_text_vocalized |-> "full", feedback_note |-> "note",
                sentences |-> [i \in 1..MaxSentences |-> SentenceAt(i)]])

DocNoSentences == Obj([final_text_vocalized |-> "full"])

DocNoFinal == Obj([feedback_note |-> "note"])

DocWithError == Obj([error |-> [str |-> "quota"], final_text_vocalized |-> "full"])

Docs == {DocFull, DocNoSentences, DocNoFinal, DocWithError, JsonInt}

(* choices[0].message.content: a string that is a JSON document, possibly *)
(* wrapped in code-fence markers, or not JSON at all.                     *)
Content(fenced, valid, doc) == [fenced |-> fenced, valid |-> valid, doc |-> doc]

Contents == {Content(FALSE, TRUE, d) : d \in Docs}
            \cup {Content(TRUE, TRUE, DocFull), Content(FALSE, FALSE, JsonInt)}

(* Outcome of requests.post: the call raises, or a response with a status *)
(* and a body that is not JSON, JSON without choices, or a completion.    *)
Statuses == {200, 500}

NotJsonBody == [kind |-> "not_json", content |-> Content(FALSE, FALSE, JsonInt)]

NoChoicesBody == [kind |-> "no_choices", content |-> Content(FALSE, FALSE, JsonInt)]

Completion(c) == [kind |-> "completion", content |-> c]

Bodies == {NotJsonBody, NoChoicesBody} \cup {Completion(c) : c \in Contents}

TransportFailure == [raised |-> TRUE, status |-> 0, body |-> NotJsonBody]

Response(status, body) == [raised |-> FALSE, status |-> status, body |-> body]

(* bodies of a response whose status is not 200: an error page, a JSON   *)
(* error document, or a completion all the same                          *)
ErrorBodies == {NotJsonBody, NoChoicesBody, Completion(Content(FALSE, TRUE, DocNoSentences))}

Responses == {TransportFailure}
             \cup {Response(200, b) : b \in Bodies}
             \cup {Response(s, b) : s \in Statuses \ {200}, b \in ErrorBodies}

(* Outcome of the speech SDK for one synthesis: the audio is completed,   *)
(* the result has another reason, or a call raises before (SpeechConfig)  *)
(* or after (AudioOutputConfig, SpeechSynthesizer, speak_ssml_async) the  *)
(* temporary file is created.                                             *)
TTSOutcomes == {"completed", "canceled", "raised_config", "raised_synth"}

----------------------------------------------------------------------------
(* log_user_activity *)

Ellipsis == <<".", ".", ".">>

ContentPreviewOffByOne(content_preview) ==
    IF Len(content_preview) >= PreviewLen
    THEN SubSeq(content_preview, 1, PreviewLen) \o Ellipsis
    ELSE content_preview

ContentPreview(content_preview) ==
    IF Len(content_preview) > PreviewLen
    THEN SubSeq(content_preview, 1, PreviewLen) \o Ellipsis
    ELSE content_preview

NewRecord(user_id, user_name, action, content_preview) ==
    [user_id |-> user_id, user_name |-> user_name, action |-> action,
     content_preview |-> ContentPreview(content_preview)]

NoLogFile == [exists |-> FALSE, header |-> FALSE, rows |-> <<>>]

LogUserActivityOverwrite(file, user_id, user_name, action, content_preview) ==
    [exists |-> TRUE, header |-> TRUE,
     rows |-> <<NewRecord(user_id, user_name, action, content_preview)>>]

LogUserActivity(file, user_id, user_name, action, content_preview) ==
    IF ~file.exists
    THEN [exists |-> TRUE, header |-> TRUE,
          rows |-> <<NewRecord(user_id, user_name, action, content_preview)>>]
    ELSE [file EXCEPT !.rows =
              Append(@, NewRecord(user_id, user_name, action, content_preview))]

----------------------------------------------------------------------------
(* generate_audio_azure *)

Digit(d) == <<"0", "1", "2", "3", "4", "5", "6", "7", "8", "9">>[d + 1]

RECURSIVE Decimal(_)
Decimal(n) == IF n < 10 THEN <<Digit(n)>> ELSE Decimal(n \div 10) \o <<Digit(n % 10)>>

Abs(n) == IF n < 0 THEN -n ELSE n

(* f"{rate:d}%": the sign only when negative *)
RateStrNoPlus(rate) ==
    (IF rate < 0 THEN <<"-">> ELSE <<>>) \o Decimal(Abs(rate)) \o <<"%">>

(* f"{rate:+d}%" *)
RateStr(rate) ==
    (IF rate < 0 THEN <<"-">> ELSE <<"+">>) \o Decimal(Abs(rate)) \o <<"%">>

NoCall(text) == [fn |-> "generate_audio_azure", text |-> text, ret |-> "None",
                 tts |-> FALSE, tmp |-> FALSE, rate_str |-> <<>>]

(* the body without its try/except: a failure of the SDK reaches the caller *)
GenerateAudioAzureNoExcept(text, key, region, voice, rate, outcome) ==
    IF text = "" \/ key = "" THEN NoCall(text)
    ELSE IF outcome = "raised_config"
    THEN [NoCall(text) EXCEPT !.ret = "RAISED"]
    ELSE [fn |-> "generate_audio_azure", text |-> text,
          ret |-> CASE outcome = "completed" -> "tempfile"
                    [] outcome = "canceled" -> "None"
                    [] OTHER -> "RAISED",
          tts |-> TRUE, tmp |-> TRUE, rate_str |-> RateStr(rate)]

(* ret is the returned path ("tempfile") or None; tts: the synthesis call *)
(* was made; tmp: a temporary file was created; rate_str: the prosody     *)
(* rate attribute of the SSML document, <<>> when none was built.         *)
GenerateAudioAzure(text, key, region, voice, rate, outcome) ==
    IF text = "" \/ key = "" THEN NoCall(text)
    ELSE IF outcome = "raised_config" THEN NoCall(text)
    ELSE [fn |-> "generate_audio_azure", text |-> text,
          ret |-> IF outcome = "completed" THEN "tempfile" ELSE "None",
          tts |-> TRUE, tmp |-> TRUE, rate_str |-> RateStr(rate)]

----------------------------------------------------------------------------
(* analyze_text *)

ErrorObj(name) == Obj([error |-> [str |-> name]])

(* json.loads of the content string *)
JsonLoads(content) ==
    IF content.fenced \/ ~content.valid
    THEN [ok |-> FALSE, val |-> JsonInt]
    ELSE [ok |-> TRUE, val |-> content.doc]

(* the value analyze_text returns for an outcome of requests.post; the *)
(* status of the response is never read                                *)
AnalyzeText(resp) ==
    IF resp.raised THEN ErrorObj("ConnectionError")
    ELSE IF resp.body.kind = "not_json" THEN ErrorObj("JSONDecodeError")
    ELSE IF resp.body.kind = "no_choices" THEN ErrorObj("KeyError")
    ELSE IF JsonLoads(resp.body.content).ok THEN JsonLoads(resp.body.content).val
    ELSE ErrorObj("JSONDecodeError")

AnalyzeCall(resp) == [fn |-> "analyze_text", resp |-> resp, ret |-> AnalyzeText(resp)]

----------------------------------------------------------------------------
(* One run of the script.  Each stage yields the calls it made, the       *)
(* elements it displayed and the uncaught exception that ended it.        *)

UserId == "session"
UserName == "Guest"
VoiceName == "ar-SA-HamedNeural"

Stage(log, result, cs, sh, err) ==
    [log |-> log, result |-> result, calls |-> cs, shown |-> sh, error |-> err]

Element(kind, of) == [kind |-> kind, of |-> of]

(* a handler that tries the Analyzer a second time after a tagged error *)
ButtonHandlerRetry(pressed, ai_key, speech_key, text, file, result, resp) ==
    IF ~pressed THEN Stage(file, result, <<>>, <<>>, "none")
    ELSE IF ai_key = "" \/ speech_key = ""
    THEN Stage(file, result, <<>>, <<Element("error", "configure API Keys")>>, "none")
    ELSE IF text = <<>>
    THEN Stage(file, result, <<>>, <<Element("warning", "enter some text")>>, "none")
    ELSE LET logged == LogUserActivity(file, UserId, UserName, "Analyze", text)
             data == AnalyzeText(resp)
         IN  IF data.t # "obj"
             THEN Stage(logged, result, <<AnalyzeCall(resp)>>, <<>>, "TypeError")
             ELSE IF "error" \notin DOMAIN data.m
             THEN Stage(logged, data, <<AnalyzeCall(resp)>>, <<>>, "none")
             ELSE Stage(logged, result, <<AnalyzeCall(resp), AnalyzeCall(resp)>>,
                        <<Element("error", data.m.error.str)>>, "none")

(* the Analyze button handler *)
ButtonHandler(pressed, ai_key, speech_key, text, file, result, resp) ==
    IF ~pressed THEN Stage(file, result, <<>>, <<>>, "none")
    ELSE IF ai_key = "" \/ speech_key = ""
    THEN Stage(file, result, <<>>, <<Element("error", "configure API Keys")>>, "none")
    ELSE IF text = <<>>
    THEN Stage(file, result, <<>>, <<Element("warning", "enter some text")>>, "none")
    ELSE LET logged == LogUserActivity(file, UserId, UserName, "Analyze", text)
             data == AnalyzeText(resp)
         IN  IF data.t # "obj"
             THEN Stage(logged, result, <<AnalyzeCall(resp)>>, <<>>, "TypeError")
             ELSE IF "error" \notin DOMAIN data.m
             THEN Stage(logged, data, <<AnalyzeCall(resp)>>, <<>>, "none")
             ELSE Stage(logged, result, <<AnalyzeCall(resp)>>,
                        <<Element("error", data.m.error.str)>>, "none")

(* data.get('sentences', []) with a default of one empty card *)
SentencesDefaultCard(data) ==
    IF "sentences" \in DOMAIN data.m THEN data.m.sentences ELSE <<[translation |-> "tr"]>>

(* data.get('sentences', []) *)
Sentences(data) ==
    IF "sentences" \in DOMAIN data.m THEN data.m.sentences ELSE <<>>

(* sent.get('segment', '') *)
SegmentText(sent) == IF "segment" \in DOMAIN sent THEN sent.segment ELSE ""

Audio(call) == IF call.ret = "tempfile" THEN <<Element("audio", call.text)>> ELSE <<>>

(* the sentence loop from sentence i on; outcomes[i + 1] is the SDK's *)
(* outcome for the call of sentence i                                  *)
RECURSIVE SentenceCards(_, _, _, _, _, _)
SentenceCards(sents, i, speech_key, region, rate, outcomes) ==
    IF i > Len(sents) THEN [calls |-> <<>>, shown |-> <<>>, error |-> "none"]
    ELSE LET segment_text == SegmentText(sents[i])
             s_audio == GenerateAudioAzure(segment_text, speech_key, region,
                                           VoiceName, rate, outcomes[i + 1])
             rest == SentenceCards(sents, i + 1, speech_key, region, rate, outcomes)
         IN  IF s_audio.ret = "RAISED"
             THEN [calls |-> <<s_audio>>, shown |-> <<Element("card", segment_text)>>,
                   error |-> "Exception"]
             ELSE [calls |-> <<s_audio>> \o rest.calls,
                   shown |-> <<Element("card", segment_text)>> \o Audio(s_audio)
                             \o <<Element("expander", segment_text)>> \o rest.shown,
                   error |-> rest.error]

(* the Results Area *)
ResultsArea(result, speech_key, region, rate, outcomes) ==
    IF result = NoResult THEN [calls |-> <<>>, shown |-> <<>>, error |-> "none"]
    ELSE LET feedback == IF "feedback_note" \in DOMAIN result.m
                         THEN <<Element("feedback", result.m.feedback_note)>> ELSE <<>>
         IN  IF "final_text_vocalized" \notin DOMAIN result.m
             THEN [calls |-> <<>>, shown |-> feedback, error |-> "KeyError"]
             ELSE LET full_audio == GenerateAudioAzure(result.m.final_text_vocalized,
                                        speech_key, region, VoiceName, rate, outcomes[1])
                      cards == SentenceCards(Sentences(result), 1, speech_key, region,
                                             rate, outcomes)
                  IN  IF full_audio.ret = "RAISED"
                      THEN [calls |-> <<full_audio>>, shown |-> feedback, error |-> "Exception"]
                      ELSE [calls |-> <<full_audio>> \o cards.calls,
                            shown |-> feedback \o Audio(full_audio) \o cards.shown,
                            error |-> cards.error]

(* the Renderer calls of a result that reach the speech SDK *)
SynthesisCalls(result, speech_key) ==
    IF result = NoResult \/ speech_key = "" \/ "final_text_vocalized" \notin DOMAIN result.m
    THEN {}
    ELSE {1} \cup {i + 1 : i \in {j \in 1..Len(Sentences(result)) :
                                    SegmentText(Sentences(result)[j]) # ""}}

OutcomeChoices(result, speech_key) ==
    {[i \in 1..(MaxSentences + 1) |-> IF i \in DOMAIN g THEN g[i] ELSE "completed"] :
        g \in [SynthesisCalls(result, speech_key) -> TTSOutcomes]}

RunScript(ai_key, speech_key, region, rate, text, pressed, resp) ==
    LET h == ButtonHandler(pressed, ai_key, speech_key, text, log_file, session_result, resp)
    IN  /\ session_result' = h.result
        /\ log_file' = h.log
        /\ IF h.error # "none"
           THEN /\ calls' = h.calls
                /\ shown' = h.shown
                /\ run_error' = h.error
           ELSE \E outcomes \in OutcomeChoices(h.result, speech_key) :
                  LET r == ResultsArea(h.result, speech_key, region, rate, outcomes)
                  IN  /\ calls' = h.calls \o r.calls
                      /\ shown' = h.shown \o r.shown
                      /\ run_error' = r.error

----------------------------------------------------------------------------
(* Initial state: the first run of a session, every widget at its default *)

Init ==
    /\ ai_api_key = ""
    /\ azure_speech_key = ""
    /\ azure_region = "eastus"
    /\ speech_rate = RateDefault
    /\ user_text = <<>>
    /\ session_result = NoResult
    /\ log_file = NoLogFile
    /\ event = "load"
    /\ calls = <<>>
    /\ shown = <<>>
    /\ run_error = "none"

SetAiApiKey ==
    \E v \in KeyValues \ {ai_api_key} :
        /\ ai_api_key' = v
        /\ event' = "widget"
        /\ UNCHANGED <<azure_speech_key, azure_region, speech_rate, user_text>>
        /\ RunScript(v, azure_speech_key, azure_region, speech_rate, user_text,
                     FALSE, TransportFailure)

SetAzureSpeechKey ==
    \E v \in KeyValues \ {azure_speech_key} :
        /\ azure_speech_key' = v
        /\ event' = "widget"
        /\ UNCHANGED <<ai_api_key, azure_region, speech_rate, user_text>>
        /\ RunScript(ai_api_key, v, azure_region, speech_rate, user_text,
                     FALSE, TransportFailure)

SetAzureRegion ==
    \E v \in RegionValues \ {azure_region} :
        /\ azure_region' = v
        /\ event' = "widget"
        /\ UNCHANGED <<ai_api_key, azure_speech_key, speech_rate, user_text>>
        /\ RunScript(ai_api_key, azure_speech_key, v, speech_rate, user_text,
                     FALSE, TransportFailure)

SetSpeechRate ==
    \E v \in RateSamples \ {speech_rate} :
        /\ speech_rate' = v
        /\ event' = "widget"
        /\ UNCHANGED <<ai_api_key, azure_speech_key, azure_region, user_text>>
        /\ RunScript(ai_api_key, azure_speech_key, azure_region, v, user_text,
                     FALSE, TransportFailure)

SetUserText ==
    \E v \in Texts \ {user_text} :
        /\ user_text' = v
        /\ event' = "widget"
        /\ UNCHANGED <<ai_api_key, azure_speech_key, azure_region, speech_rate>>
        /\ RunScript(ai_api_key, azure_speech_key, azure_region, speech_rate, v,
                     FALSE, TransportFailure)

PressAnalyze ==
    /\ Len(log_file.rows) < MaxLog
    /\ \E resp \in Responses :
        /\ event' = "analyze"
        /\ UNCHANGED <<ai_api_key, azure_speech_key, azure_region, speech_rate, user_text>>
        /\ RunScript(ai_api_key, azure_speech_key, azure_region, speech_rate, user_text,
                     TRUE, resp)

Next ==
    \/ SetAiApiKey
    \/ SetAzureSpeechKey
    \/ SetAzureRegion
    \/ SetSpeechRate
    \/ SetUserText
    \/ PressAnalyze

Spec == Init /\ [][Next]_vars

(* generate_audio_azure on its own, for every position of the slider *)

InitAudio ==
    /\ ai_api_key = ""
    /\ azure_speech_key \in KeyValues
    /\ azure_region = "eastus"
    /\ speech_rate \in SliderRange
    /\ user_text = <<>>
    /\ session_result = NoResult
    /\ log_file = NoLogFile
    /\ event = "load"
    /\ calls = <<>>
    /\ shown = <<>>
    /\ run_error = "none"

Synthesize ==
    \E text \in {"", "full"}, outcome \in TTSOutcomes :
        LET audio == GenerateAudioAzure(text, azure_speech_key, azure_region,
                                        VoiceName, speech_rate, outcome)
        IN  /\ calls' = <<audio>>
            /\ shown' = Audio(audio)
            /\ event' = "synthesize"
            /\ UNCHANGED <<ai_api_key, azure_speech_key, azure_region, speech_rate,
                           user_text, session_result, log_file, run_error>>

NextAudio == Synthesize

SpecAudio == InitAudio /\ [][NextAudio]_vars

----------------------------------------------------------------------------
(* Vocabulary of the properties *)

AnalyzerCalls == {i \in DOMAIN calls : calls[i].fn = "analyze_text"}

RendererCalls == {i \in DOMAIN calls : calls[i].fn = "generate_audio_azure"}

Shown(kind) == {i \in DOMAIN shown : shown[i].kind = kind}

(* the latest run was an Analyze press that reached the Analyzer *)
Analyzed == event = "analyze" /\ calls # <<>> /\ calls[1].fn = "analyze_text"

(* the latest run was an Analyze press that passed the handler's validation *)
Validated == event = "analyze" /\ ai_api_key # "" /\ azure_speech_key # "" /\ user_text # <<>>

IsErrorObject(v) == v.t = "obj" /\ "error" \in DOMAIN v.m

Parseable(resp) ==
    ~resp.raised /\ resp.body.kind = "completion"
    /\ resp.body.content.valid /\ ~resp.body.content.fenced

LastRow == log_file.rows[Len(log_file.rows)]

----------------------------------------------------------------------------
(* C1: a response of the analysis endpoint whose status is not 200 makes  *)
(* analyze_text return an error object that carries the status code and   *)
(* the body, never a success object.                                      *)
C1_NonOkIsServiceError ==
    \A i \in AnalyzerCalls :
        (~calls[i].resp.raised /\ calls[i].resp.status # 200) =>
            /\ IsErrorObject(calls[i].ret)
            /\ "status" \in DOMAIN calls[i].ret.m.error
            /\ "body" \in DOMAIN calls[i].ret.m.error

(* C2: content that is a valid JSON document wrapped in code-fence        *)
(* markers is returned parsed, as a success.                              *)
C2_FencedContentParses ==
    \A i \in AnalyzerCalls :
        (/\ ~calls[i].resp.raised
         /\ calls[i].resp.body.kind = "completion"
         /\ calls[i].resp.body.content.fenced
         /\ calls[i].resp.body.content.valid) =>
            /\ ~IsErrorObject(calls[i].ret)
            /\ calls[i].ret = calls[i].resp.body.content.doc

C4_OneRecordPerSuccess ==
    [][IF event' = "analyze" /\ Analyzed' /\ ~IsErrorObject(calls'[1].ret)
       THEN /\ Len(log_file'.rows) = Len(log_file.rows) + 1
            /\ SubSeq(log_file'.rows, 1, Len(log_file.rows)) = log_file.rows
       ELSE log_file' = log_file]_vars

(* C4, amended: the log is the header followed by exactly one record per  *)
(* Analyze press that passes validation, whether or not its Analyzer call *)
(* succeeds, in order of occurrence; a press rejected by validation and   *)
(* any other event add no record, and no step changes or removes an       *)
(* earlier record.                                                        *)
C4_OneRecordPerValidatedPress ==
    [][IF event' = "analyze" /\ Validated'
       THEN /\ log_file'.exists /\ log_file'.header
            /\ Len(log_file'.rows) = Len(log_file.rows) + 1
            /\ SubSeq(log_file'.rows, 1, Len(log_file.rows)) = log_file.rows
            /\ log_file'.rows[Len(log_file'.rows)].action = "Analyze"
       ELSE log_file' = log_file]_vars

C4_FailedPressLogged ==
    /\ Analyzed /\ IsErrorObject(calls[1].ret)
    /\ log_file.header /\ Len(log_file.rows) = 2
    /\ log_file.rows[1].content_preview # log_file.rows[2].content_preview

(* C5: the Analyzer is invoked only when the AI key, the speech key and   *)
(* the speech region are all present and the text is non-empty.           *)
C5_AnalyzerNeedsAllThree ==
    Analyzed =>
        /\ ai_api_key # "" /\ azure_speech_key # "" /\ azure_region # ""
        /\ user_text # <<>>

(* C6: a cached result that has final_text_vocalized and no sentences     *)
(* field renders without error, with no sentence card and no per-sentence *)
(* Renderer call (only the call for the full text).                       *)
C6_NoSentencesRendersEmpty ==
    (/\ Has(session_result, "final_text_vocalized")
     /\ ~Has(session_result, "sentences")
     /\ run_error # "TypeError") =>
        /\ run_error = "none"
        /\ Shown("card") = {}
        /\ Cardinality(RendererCalls) = 1

C6_NoSentencesRendered ==
    /\ session_result = DocNoSentences
    /\ run_error = "none"
    /\ Cardinality(RendererCalls) = 1
    /\ Shown("audio") # {}

(* Reading a decimal numeral back *)
DigitValue(c) == CHOOSE d \in 0..9 : Digit(d) = c

RECURSIVE NumeralValue(_)
NumeralValue(ds) ==
    IF ds = <<>> THEN 0
    ELSE 10 * NumeralValue(SubSeq(ds, 1, Len(ds) - 1)) + DigitValue(ds[Len(ds)])

(* C7: for every rate of the slider the prosody rate attribute is a sign  *)
(* character, '-' below zero and '+' otherwise, then the absolute value   *)
(* in decimal, then '%'; -50 gives "-50%" and 50 gives "+50%".            *)
C7_RateIsSignedPercent ==
    \A i \in RendererCalls :
        calls[i].rate_str # <<>> =>
            LET r == calls[i].rate_str
                digits == SubSeq(r, 2, Len(r) - 1)
            IN  /\ Len(r) >= 3
                /\ r[1] = (IF speech_rate < 0 THEN "-" ELSE "+")
                /\ r[Len(r)] = "%"
                /\ \A k \in DOMAIN digits : digits[k] \in {Digit(d) : d \in 0..9}
                /\ NumeralValue(digits) = Abs(speech_rate)
                /\ (Len(digits) > 1 => digits[1] # "0")
                /\ (speech_rate = -50 => r = <<"-", "5", "0", "%">>)
                /\ (speech_rate = 50 => r = <<"+", "5", "0", "%">>)

C7_UpperBoundaryFormatted ==
    /\ speech_rate = 50
    /\ RendererCalls # {}
    /\ calls[1].rate_str = <<"+", "5", "0", "%">>

(* C8: generate_audio_azure never raises: whatever the speech service     *)
(* does it returns the path of the temporary file or no asset; for empty  *)
(* text it returns no asset without contacting the service and without    *)
(* creating a temporary file; the page plays audio exactly for the calls  *)
(* that returned an asset.                                                *)
C8_RendererNeverRaises ==
    /\ run_error # "Exception"
    /\ \A i \in RendererCalls :
          /\ calls[i].ret \in {"tempfile", "None"}
          /\ (calls[i].ret = "tempfile" => calls[i].tmp /\ calls[i].tts)
          /\ (calls[i].text = "" =>
                 calls[i].ret = "None" /\ ~calls[i].tts /\ ~calls[i].tmp)
    /\ Cardinality(Shown("audio"))
          = Cardinality({i \in RendererCalls : calls[i].ret = "tempfile"})

C8_FailureAndEmptyTextSkipped ==
    /\ \E i \in RendererCalls : calls[i].text = "" /\ calls[i].ret = "None"
    /\ \E i \in RendererCalls : calls[i].tts /\ calls[i].ret = "None"
    /\ \E i \in RendererCalls : calls[i].ret = "tempfile"
    /\ Cardinality(Shown("audio")) = 1

(* C9: the cached result is replaced by the Analyzer's output exactly     *)
(* when the call returned a parseable payload; otherwise analyze_text     *)
(* returns a tagged error, the error is displayed and the cached result   *)
(* is left unchanged.                                                     *)
C9_CachedIffParseable ==
    [][(event' = "analyze" /\ Analyzed') =>
          IF Parseable(calls'[1].resp)
          THEN session_result' = calls'[1].ret /\ run_error' # "TypeError"
          ELSE /\ IsErrorObject(calls'[1].ret)
               /\ Shown("error")' # {}
               /\ session_result' = session_result]_vars

(* the Renderer calls that follow an Analyzer call which returned an      *)
(* AnalysisResult with N sentences: N+1 of them, the full vocalized text  *)
(* first, then each sentence's segment in list order                      *)
RendersItsResult ==
    (/\ Analyzed
     /\ ~IsErrorObject(calls[1].ret)
     /\ Has(calls[1].ret, "final_text_vocalized")) =>
        LET data == calls[1].ret
            n == Len(Sentences(data))
        IN  /\ RendererCalls = 2..(n + 2)
            /\ calls[2].text = data.m.final_text_vocalized
            /\ \A k \in 1..n : calls[k + 2].text = SegmentText(Sentences(data)[k])

(* C10, as stated: every Analyze press performs exactly one Analyzer call *)
(* and then N+1 Renderer calls for the N sentences of its result.         *)
C10_EveryPressAnalyzesOnce ==
    event = "analyze" => (AnalyzerCalls = {1} /\ RendersItsResult)

(* C10, amended: an Analyze press that passes validation performs exactly *)
(* one Analyzer call, a rejected press none; when the call returns an     *)
(* AnalysisResult with N sentences the run then makes exactly N+1         *)
(* Renderer calls, the full vocalized text first and then each sentence's *)
(* segment in list order; no Renderer call precedes the Analyzer call.    *)
C10_ValidatedPressAnalyzesOnce ==
    event = "analyze" =>
        /\ AnalyzerCalls = (IF Validated THEN {1} ELSE {})
        /\ RendersItsResult

C10_FullResultRendered ==
    /\ Analyzed
    /\ calls[1].ret = DocFull
    /\ Len(calls) = MaxSentences + 2
    /\ \E k \in 1..MaxSentences : calls[k + 2].text # ""

====
